---- MODULE Spec2Model ----
(***************************************************************************)
(* Station / faction state engine of systembot (src/systembot/bot.py).     *)
(*                                                                         *)
(* The bot is a single asyncio process.  A command handler runs without    *)
(* interruption until it awaits a database statement; every such await is  *)
(* a point where the handlers of other commands may run.  Each handler is  *)
(* therefore modelled as one action per database statement (autocommit,    *)
(* one statement = one atomic step of the store), the first action also    *)
(* covering the schedule gate, the staff check and the argument checks     *)
(* that precede the first statement.                                       *)
(*                                                                         *)
(* Rows of the JSONB column "resources" are modelled as the mapping the    *)
(* handlers treat them as (zone -> item -> quantity).                      *)
(***************************************************************************)
EXTENDS Integers, Sequences, FiniteSets, Bags, TLC

\* ---------------------------------------------------------------- bounds
\* Number of command handlers that may be in flight at the same time.
MaxTasks == 2

\* Number of commands invoked in one run.
MaxCalls == 3

Tasks == 1..MaxTasks

\* ------------------------------------------------------- text conversions
\* str.lower(), str.upper() and str.strip() on the strings the commands are
\* invoked with in this model; every other string of the model is already
\* in the form the conversion produces.
lower(s) ==
  CASE s = "HQ" -> "hq"
    [] s = "HQ " -> "hq "
    [] s = "Lager" -> "lager"
    [] s = "Keller" -> "keller"
    [] s = " Bauhaus" -> " bauhaus"
    [] s = "Wood" -> "wood"
    [] s = "CAMP" -> "camp"
    [] s = "STRATEGISCH" -> "strategisch"
    [] OTHER -> s

upper(s) ==
  CASE s = "camp" -> "CAMP"
    [] s = "strategisch" -> "STRATEGISCH"
    [] s = "Dorf " -> "DORF "
    [] s = "ldf" -> "LDF"
    [] s = "cmc" -> "CMC"
    [] s = "un" -> "UN"
    [] s = "burg" -> "BURG"
    [] s = "xyz" -> "XYZ"
    [] s = " ind" -> " IND"
    [] OTHER -> s

strip(s) ==
  CASE s = "hq " -> "hq"
    [] s = "HQ " -> "HQ"
    [] s = " bauhaus" -> "bauhaus"
    [] s = " Bauhaus" -> "Bauhaus"
    [] s = "DORF " -> "DORF"
    [] s = "Dorf " -> "Dorf"
    [] s = " IND" -> "IND"
    [] s = " ind" -> "ind"
    [] OTHER -> s

Max(a, b) == IF a >= b THEN a ELSE b
Min(a, b) == IF a <= b THEN a ELSE b

\* ---------------------------------------------------------- open hours
\* A datetime is [weekday, minute]: weekday 0 (Monday) .. 6 (Sunday) and
\* the minute of the day of its wall-clock time.
time(h, m) == h * 60 + m

is_open_now_same_day(dt) ==
  IF dt.weekday \in {0, 1, 2, 3}
    THEN time(14, 0) <= dt.minute /\ dt.minute < time(23, 0)
    ELSE IF dt.weekday \in {4, 5, 6}
      THEN dt.minute >= time(12, 0)
      ELSE FALSE

is_open_now(dt) ==
  IF dt.weekday \in {0, 1, 2, 3}
    THEN time(14, 0) <= dt.minute /\ dt.minute < time(23, 0)
    ELSE IF dt.weekday \in {4, 5, 6}
      THEN dt.minute >= time(12, 0) \/ dt.minute < time(1, 0)
      ELSE FALSE

\* ------------------------------------------------------------ constants
STATION_TYPES ==
  [CAMP         |-> [min_players |-> 1],
   DORF         |-> [min_players |-> 4],
   SIEDLUNG     |-> [min_players |-> 10],
   AUSSENPOSTEN |-> [min_players |-> 5],
   STRATEGISCH  |-> [min_players |-> 5]]

RESOURCE_ZONES == <<"lager", "verarbeitung", "bauhaus", "produktion">>

Zones == {RESOURCE_ZONES[i] : i \in DOMAIN RESOURCE_ZONES}

DEFAULT_FACTIONS ==
  [LDF |-> [name |-> "Livonian Defence Forces", side |-> "state", playable |-> TRUE],
   CMC |-> [name |-> "Chernarus Mining Corporation", side |-> "invader", playable |-> TRUE],
   IND |-> [name |-> "Unabhaengige", side |-> "independent", playable |-> TRUE],
   UN  |-> [name |-> "United Nations", side |-> "neutral_team", playable |-> FALSE]]

NoItems == [i \in {} |-> 0]

default_resources == [z \in Zones |-> NoItems]

\* ---------------------------------------------------------------- state
VARIABLES
  factions,         \* table factions: key -> row
  players,          \* table players: the set of its rows
  stations,         \* table stations: station_id -> row
  station_members,  \* table station_members: bag of rows <<station_id, user_id>>
  pc,               \* per handler: the statement it is suspended before
  call,             \* per handler: the command and its arguments
  loc,              \* per handler: what it has read from the store
  result,           \* per handler: the outcome it replied with
  ncalls,           \* history: the number of commands invoked so far
  solo,             \* history: the handler that has run alone since its start (0: none)
  pre,              \* history: table stations when handler solo was invoked
  last              \* history: the command that ran alone just before, its reply and its pre

db == <<factions, players, stations, station_members>>
vars == <<factions, players, stations, station_members, pc, call, loc, result, ncalls, solo, pre, last>>

NoStations == [s \in {} |-> 0]
NoPlayers == {}
NoCall == [op |-> "none"]
NoLoc == [none |-> TRUE]
NoLast == [call |-> NoCall, result |-> "none", pre |-> NoStations]

AllIdle == \A u \in Tasks : pc[u] = "idle"

\* A handler is entered: outcome is the reply of a check that failed before
\* the first statement, or "run" with the first statement at label first.
Enter(t, c, outcome, first) ==
  /\ pc[t] = "idle"
  /\ ncalls < MaxCalls
  /\ ncalls' = ncalls + 1
  /\ call' = [call EXCEPT ![t] = c]
  /\ pc' = [pc EXCEPT ![t] = IF outcome = "run" THEN first ELSE "done"]
  /\ result' = [result EXCEPT ![t] = IF outcome = "run" THEN "pending" ELSE outcome]
  /\ solo' = IF AllIdle THEN t ELSE 0
  /\ pre' = IF AllIdle THEN stations ELSE NoStations
  /\ last' = IF AllIdle THEN last ELSE NoLast
  /\ UNCHANGED loc

Goto(t, label) ==
  /\ pc' = [pc EXCEPT ![t] = label]
  /\ UNCHANGED <<call, result, ncalls, solo, pre, last>>

Reply(t, outcome) ==
  /\ pc' = [pc EXCEPT ![t] = "done"]
  /\ result' = [result EXCEPT ![t] = outcome]
  /\ UNCHANGED <<call, ncalls, solo, pre, last>>

\* The handler returns after its reply has been sent.
Return(t) ==
  /\ pc[t] = "done"
  /\ pc' = [pc EXCEPT ![t] = "idle"]
  /\ call' = [call EXCEPT ![t] = NoCall]
  /\ loc' = [loc EXCEPT ![t] = NoLoc]
  /\ result' = [result EXCEPT ![t] = "none"]
  /\ solo' = IF solo = t THEN 0 ELSE solo
  /\ pre' = IF solo = t THEN NoStations ELSE pre
  /\ last' = IF solo = t
       THEN [call |-> call[t], result |-> result[t], pre |-> pre]
       ELSE NoLast
  /\ UNCHANGED <<db, ncalls>>

\* Variant that lets every invocation through.
require_open_skipped(c) == TRUE

\* require_open: is_open_now(datetime.now(TZ)); c.now is the wall clock at
\* the invocation.
require_open(c) == is_open_now(c.now)

\* Variant that takes every caller for staff.
is_staff_skipped(c) == TRUE

\* interaction.user.guild_permissions.administrator
is_staff(c) == c.staff

\* The checks every command but ping starts with; staffOnly for the
\* commands that go on to test is_staff.
Gate(c, staffOnly) ==
  IF ~require_open(c) THEN "closed"
  ELSE IF staffOnly /\ ~is_staff(c) THEN "denied"
  ELSE "run"

StationId(t) == strip(lower(call[t].station_id))
StationType(t) == strip(upper(call[t].station_type))

\* ------------------------------------------------------ store statements
\* Variant of a table without the primary key.
UniqueViolationIgnored(tbl, station_id) == FALSE

\* INSERT INTO stations: the primary key station_id rejects a second row.
UniqueViolation(tbl, station_id) == station_id \in DOMAIN tbl

NewStation(name, stype, owner, protection) ==
  [name |-> name, type |-> stype, owner_faction |-> owner, condition |-> 100,
   protection_hours |-> protection, resources |-> default_resources]

InsertStation(tbl, station_id, row) ==
  [s \in DOMAIN tbl \cup {station_id} |-> IF s = station_id THEN row ELSE tbl[s]]

\* UPDATE stations SET <column> = value WHERE station_id = ...: no row, no change.
UpdateType(tbl, station_id, stype) ==
  [s \in DOMAIN tbl |-> IF s = station_id THEN [tbl[s] EXCEPT !.type = stype] ELSE tbl[s]]

UpdateCondition(tbl, station_id, condition) ==
  [s \in DOMAIN tbl |-> IF s = station_id THEN [tbl[s] EXCEPT !.condition = condition] ELSE tbl[s]]

UpdateProtection(tbl, station_id, hours) ==
  [s \in DOMAIN tbl |-> IF s = station_id THEN [tbl[s] EXCEPT !.protection_hours = hours] ELSE tbl[s]]

\* SELECT user_id FROM station_members WHERE station_id = ...: the rows of
\* the station, with their multiplicity.
list_station_members_db(station_id) ==
  [m \in {x \in DOMAIN station_members : x[1] = station_id} |-> station_members[m]]

\* --------------------------------------------------------- create_station
\* Variant that also refuses the minimum itself.
BelowMinimumOffByOne(stype, member_count) ==
  member_count <= STATION_TYPES[stype].min_players

BelowMinimum(stype, member_count) ==
  member_count < STATION_TYPES[stype].min_players

\* Variant without the protection of strategic points.
InitialProtectionNone(stype) == 0

InitialProtection(stype) == IF stype = "STRATEGISCH" THEN 48 ELSE 0

create_station(t, c) ==
  LET stype == strip(upper(c.station_type))
      outcome ==
        IF Gate(c, TRUE) # "run" THEN Gate(c, TRUE)
        ELSE IF stype \notin DOMAIN STATION_TYPES THEN "invalid_type"
        ELSE IF BelowMinimum(stype, c.member_count) THEN "below_min"
        ELSE "run"
  IN /\ c.op = "create_station"
     /\ Enter(t, c, outcome, "create_exists")
     /\ UNCHANGED db

\* if await station_exists(station_id)
create_station_exists(t) ==
  /\ pc[t] = "create_exists"
  /\ IF StationId(t) \in DOMAIN stations
       THEN Reply(t, "exists")
       ELSE Goto(t, "create_insert")
  /\ UNCHANGED <<db, loc>>

\* await create_station_db(...): the insert, or the exception of the store
\* that on_app_command_error turns into an error reply.
create_station_db(t) ==
  /\ pc[t] = "create_insert"
  /\ IF UniqueViolation(stations, StationId(t))
       THEN /\ Reply(t, "error")
            /\ UNCHANGED stations
       ELSE /\ stations' = InsertStation(stations, StationId(t),
                 NewStation(call[t].name, StationType(t),
                            strip(upper(call[t].owner_faction)),
                            InitialProtection(StationType(t))))
            /\ Reply(t, "ok")
  /\ UNCHANGED <<factions, players, station_members, loc>>

\* ----------------------------------------------------------- station_info
station_info(t, c) ==
  /\ c.op = "station_info"
  /\ Enter(t, c, Gate(c, FALSE), "info_get")
  /\ UNCHANGED db

\* row = await get_station_db(station_id)
station_info_get(t) ==
  /\ pc[t] = "info_get"
  /\ IF StationId(t) \in DOMAIN stations
       THEN /\ loc' = [loc EXCEPT ![t] = [row |-> stations[StationId(t)]]]
            /\ Goto(t, "info_members")
       ELSE /\ Reply(t, "not_found")
            /\ UNCHANGED loc
  /\ UNCHANGED db

\* members = await list_station_members_db(station_id)
station_info_members(t) ==
  /\ pc[t] = "info_members"
  /\ loc' = [loc EXCEPT ![t] =
       [row |-> loc[t].row,
        members |-> BagCardinality(list_station_members_db(StationId(t)))]]
  /\ Reply(t, "ok")
  /\ UNCHANGED db

\* ----------------------------- station_add_member, station_remove_member
\* Variant without ON CONFLICT DO NOTHING and without the primary key.
AddMemberAlways(members, station_id, user_id) ==
  members (+) SetToBag({<<station_id, user_id>>})

\* INSERT INTO station_members ... ON CONFLICT DO NOTHING
AddMember(members, station_id, user_id) ==
  IF BagIn(<<station_id, user_id>>, members)
    THEN members
    ELSE members (+) SetToBag({<<station_id, user_id>>})

\* DELETE FROM station_members WHERE station_id = ... AND user_id = ...
RemoveMember(members, station_id, user_id) ==
  [m \in DOMAIN members \ {<<station_id, user_id>>} |-> members[m]]

station_add_member(t, c) ==
  /\ c.op = "station_add_member"
  /\ Enter(t, c, Gate(c, TRUE), "member_add_exists")
  /\ UNCHANGED db

station_add_member_exists(t) ==
  /\ pc[t] = "member_add_exists"
  /\ IF StationId(t) \in DOMAIN stations
       THEN Goto(t, "member_add_insert")
       ELSE Reply(t, "not_found")
  /\ UNCHANGED <<db, loc>>

\* await add_station_member_db(station_id, str(user.id)); station_id
\* references stations, so the store rejects a row for an unknown station.
station_add_member_db(t) ==
  /\ pc[t] = "member_add_insert"
  /\ IF StationId(t) \in DOMAIN stations
       THEN /\ station_members' = AddMember(station_members, StationId(t), call[t].user)
            /\ Reply(t, "ok")
       ELSE /\ UNCHANGED station_members
            /\ Reply(t, "error")
  /\ UNCHANGED <<factions, players, stations, loc>>

station_remove_member(t, c) ==
  /\ c.op = "station_remove_member"
  /\ Enter(t, c, Gate(c, TRUE), "member_remove_exists")
  /\ UNCHANGED db

station_remove_member_exists(t) ==
  /\ pc[t] = "member_remove_exists"
  /\ IF StationId(t) \in DOMAIN stations
       THEN Goto(t, "member_remove_delete")
       ELSE Reply(t, "not_found")
  /\ UNCHANGED <<db, loc>>

\* await remove_station_member_db(station_id, str(user.id))
station_remove_member_db(t) ==
  /\ pc[t] = "member_remove_delete"
  /\ station_members' = RemoveMember(station_members, StationId(t), call[t].user)
  /\ Reply(t, "ok")
  /\ UNCHANGED <<factions, players, stations, loc>>

\* ------------------------------------------------------- station_set_type
\* Variant that does not test the current hours.
NeedsRaiseAlways(row, stype) == stype = "STRATEGISCH"

NeedsRaise(row, stype) == stype = "STRATEGISCH" /\ row.protection_hours = 0

station_set_type(t, c) ==
  LET outcome ==
        IF Gate(c, TRUE) # "run" THEN Gate(c, TRUE)
        ELSE IF strip(upper(c.station_type)) \notin DOMAIN STATION_TYPES THEN "invalid_type"
        ELSE "run"
  IN /\ c.op = "station_set_type"
     /\ Enter(t, c, outcome, "type_exists")
     /\ UNCHANGED db

station_set_type_exists(t) ==
  /\ pc[t] = "type_exists"
  /\ IF StationId(t) \in DOMAIN stations
       THEN Goto(t, "type_update")
       ELSE Reply(t, "not_found")
  /\ UNCHANGED <<db, loc>>

\* await update_station_type_db(station_id, station_type)
station_set_type_update(t) ==
  /\ pc[t] = "type_update"
  /\ stations' = UpdateType(stations, StationId(t), StationType(t))
  /\ Goto(t, "type_get")
  /\ UNCHANGED <<factions, players, station_members, loc>>

\* row = await get_station_db(station_id), and the test that follows it
station_set_type_get(t) ==
  /\ pc[t] = "type_get"
  /\ IF StationId(t) \in DOMAIN stations
       THEN /\ loc' = [loc EXCEPT ![t] = [row |-> stations[StationId(t)]]]
            /\ IF NeedsRaise(stations[StationId(t)], StationType(t))
                 THEN Goto(t, "type_raise")
                 ELSE Reply(t, "ok")
       ELSE /\ UNCHANGED loc
            /\ Reply(t, "ok")
  /\ UNCHANGED db

\* await update_station_protection_db(station_id, 48)
station_set_type_raise(t) ==
  /\ pc[t] = "type_raise"
  /\ stations' = UpdateProtection(stations, StationId(t), 48)
  /\ Reply(t, "ok")
  /\ UNCHANGED <<factions, players, station_members, loc>>

\* -------------------------------------------------- station_set_condition
\* Variant without the lower bound.
ClampConditionNoFloor(condition) == Min(100, condition)

ClampCondition(condition) == Max(0, Min(100, condition))

station_set_condition(t, c) ==
  /\ c.op = "station_set_condition"
  /\ Enter(t, c, Gate(c, TRUE), "condition_exists")
  /\ UNCHANGED db

station_set_condition_exists(t) ==
  /\ pc[t] = "condition_exists"
  /\ IF StationId(t) \in DOMAIN stations
       THEN Goto(t, "condition_update")
       ELSE Reply(t, "not_found")
  /\ UNCHANGED <<db, loc>>

\* await update_station_condition_db(station_id, condition)
station_set_condition_update(t) ==
  /\ pc[t] = "condition_update"
  /\ stations' = UpdateCondition(stations, StationId(t), ClampCondition(call[t].condition))
  /\ Reply(t, "ok")
  /\ UNCHANGED <<factions, players, station_members, loc>>

\* ------------------------------------------------- station_set_protection
\* Variant without the lower bound.
ClampProtectionNone(hours) == hours

ClampProtection(hours) == Max(0, hours)

station_set_protection(t, c) ==
  /\ c.op = "station_set_protection"
  /\ Enter(t, c, Gate(c, TRUE), "protection_exists")
  /\ UNCHANGED db

station_set_protection_exists(t) ==
  /\ pc[t] = "protection_exists"
  /\ IF StationId(t) \in DOMAIN stations
       THEN Goto(t, "protection_update")
       ELSE Reply(t, "not_found")
  /\ UNCHANGED <<db, loc>>

\* await update_station_protection_db(station_id, hours)
station_set_protection_update(t) ==
  /\ pc[t] = "protection_update"
  /\ stations' = UpdateProtection(stations, StationId(t), ClampProtection(call[t].hours))
  /\ Reply(t, "ok")
  /\ UNCHANGED <<factions, players, station_members, loc>>
\* --------------------------------------------------------- resource ledger
\* get_resources_db: the ledger of the row, default_resources() without a row
get_resources_db(station_id) ==
  IF station_id \in DOMAIN stations
    THEN stations[station_id].resources
    ELSE default_resources

\* UPDATE stations SET resources = ... WHERE station_id = ...
set_resources_db(tbl, station_id, res) ==
  [s \in DOMAIN tbl |-> IF s = station_id THEN [tbl[s] EXCEPT !.resources = res] ELSE tbl[s]]

ZoneItems(res, zone) == IF zone \in DOMAIN res THEN res[zone] ELSE NoItems

\* Variant that never finds the item.
QuantityDefault(res, zone, item) == 0

\* int(res[zone].get(item, 0))
Quantity(res, zone, item) ==
  IF item \in DOMAIN ZoneItems(res, zone) THEN ZoneItems(res, zone)[item] ELSE 0

\* res[zone][item] = value, after "if zone not in res: res[zone] = {}"
PutItem(res, zone, item, value) ==
  [z \in DOMAIN res \cup {zone} |->
     IF z = zone
       THEN [i \in DOMAIN ZoneItems(res, zone) \cup {item} |->
               IF i = item THEN value ELSE ZoneItems(res, zone)[i]]
       ELSE res[z]]

Zone(t) == strip(lower(call[t].zone))
Item(t) == strip(lower(call[t].item))
\* Variant without the clamp of the amount.
AmountRaw(t) == call[t].amount

\* amount = max(0, int(amount))
Amount(t) == Max(0, call[t].amount)

\* Variant without the floor.
TakeQuantityNoFloor(current, amount) == current - amount

\* max(0, current - amount)
TakeQuantity(current, amount) == Max(0, current - amount)

\* Variant without the zone test.
ResourceEntryAnyZone(c) == Gate(c, TRUE)

ResourceEntry(c) ==
  IF Gate(c, TRUE) # "run" THEN Gate(c, TRUE)
  ELSE IF strip(lower(c.zone)) \notin Zones THEN "invalid_zone"
  ELSE "run"

resource_add(t, c) ==
  /\ c.op = "resource_add"
  /\ Enter(t, c, ResourceEntry(c), "add_exists")
  /\ UNCHANGED db

resource_add_exists(t) ==
  /\ pc[t] = "add_exists"
  /\ IF StationId(t) \in DOMAIN stations
       THEN Goto(t, "add_get")
       ELSE Reply(t, "not_found")
  /\ UNCHANGED <<db, loc>>

\* res = await get_resources_db(station_id), and the update of res in memory
resource_add_get(t) ==
  /\ pc[t] = "add_get"
  /\ LET res == get_resources_db(StationId(t))
         current == Quantity(res, Zone(t), Item(t))
     IN loc' = [loc EXCEPT ![t] =
          [res |-> PutItem(res, Zone(t), Item(t), current + Amount(t)),
           new |-> current + Amount(t)]]
  /\ Goto(t, "add_set")
  /\ UNCHANGED db

\* await set_resources_db(station_id, res)
resource_add_set(t) ==
  /\ pc[t] = "add_set"
  /\ stations' = set_resources_db(stations, StationId(t), loc[t].res)
  /\ Reply(t, "ok")
  /\ UNCHANGED <<factions, players, station_members, loc>>

resource_take(t, c) ==
  /\ c.op = "resource_take"
  /\ Enter(t, c, ResourceEntry(c), "take_exists")
  /\ UNCHANGED db

resource_take_exists(t) ==
  /\ pc[t] = "take_exists"
  /\ IF StationId(t) \in DOMAIN stations
       THEN Goto(t, "take_get")
       ELSE Reply(t, "not_found")
  /\ UNCHANGED <<db, loc>>

resource_take_get(t) ==
  /\ pc[t] = "take_get"
  /\ LET res == get_resources_db(StationId(t))
         current == Quantity(res, Zone(t), Item(t))
     IN loc' = [loc EXCEPT ![t] =
          [res |-> PutItem(res, Zone(t), Item(t), TakeQuantity(current, Amount(t))),
           new |-> TakeQuantity(current, Amount(t))]]
  /\ Goto(t, "take_set")
  /\ UNCHANGED db

resource_take_set(t) ==
  /\ pc[t] = "take_set"
  /\ stations' = set_resources_db(stations, StationId(t), loc[t].res)
  /\ Reply(t, "ok")
  /\ UNCHANGED <<factions, players, station_members, loc>>

\* ---------------------------------------------------------- resource_show
resource_show(t, c) ==
  /\ c.op = "resource_show"
  /\ Enter(t, c, Gate(c, FALSE), "show_exists")
  /\ UNCHANGED db

resource_show_exists(t) ==
  /\ pc[t] = "show_exists"
  /\ IF StationId(t) \in DOMAIN stations
       THEN Goto(t, "show_get")
       ELSE Reply(t, "not_found")
  /\ UNCHANGED <<db, loc>>

\* res = await get_resources_db(station_id), rendered zone by zone
resource_show_get(t) ==
  /\ pc[t] = "show_get"
  /\ loc' = [loc EXCEPT ![t] =
       [res |-> [z \in Zones |-> ZoneItems(get_resources_db(StationId(t)), z)]]]
  /\ Reply(t, "ok")
  /\ UNCHANGED db

\* ------------------------------------------------------------------- ping
ping(t, c) ==
  /\ c.op = "ping"
  /\ Enter(t, c, "ok", "done")
  /\ UNCHANGED db

\* --------------------------------------------------------------- factions
\* SELECT ... FROM factions ORDER BY key
fetch_factions == factions

factions_cmd(t, c) ==
  /\ c.op = "factions"
  /\ Enter(t, c, Gate(c, FALSE), "factions_fetch")
  /\ UNCHANGED db

factions_cmd_fetch(t) ==
  /\ pc[t] = "factions_fetch"
  /\ loc' = [loc EXCEPT ![t] = [rows |-> fetch_factions]]
  /\ Reply(t, "ok")
  /\ UNCHANGED db

\* ---------------------------------------------------- join_faction, whoami
\* faction.upper().strip()
Faction(t) == strip(upper(call[t].faction))

\* Variant that joins any faction of the catalogue.
NotPlayableIgnored(row) == FALSE

\* not factions_map[faction]["playable"]
NotPlayable(row) == ~row.playable

\* INSERT INTO players ... ON CONFLICT (user_id) DO UPDATE SET name, faction_key
PlayerRow(user_id, name, faction_key) ==
  [user_id |-> user_id, name |-> name, faction_key |-> faction_key]

\* SELECT user_id, name, faction_key FROM players WHERE user_id = ...
get_player(user_id) == {r \in players : r.user_id = user_id}

\* Variant without the conflict clause and without the primary key.
set_player_faction_insert(tbl, user_id, name, faction_key) ==
  tbl \cup {PlayerRow(user_id, name, faction_key)}

set_player_faction(tbl, user_id, name, faction_key) ==
  {r \in tbl : r.user_id # user_id} \cup {PlayerRow(user_id, name, faction_key)}

join_faction(t, c) ==
  /\ c.op = "join_faction"
  /\ Enter(t, c, Gate(c, FALSE), "join_fetch")
  /\ UNCHANGED db

\* rows = await fetch_factions() and the two tests on the rows
join_faction_fetch(t) ==
  /\ pc[t] = "join_fetch"
  /\ LET factions_map == fetch_factions
     IN IF Faction(t) \notin DOMAIN factions_map
          THEN Reply(t, "unknown")
          ELSE IF NotPlayable(factions_map[Faction(t)])
                 THEN Reply(t, "not_playable")
                 ELSE Goto(t, "join_set")
  /\ UNCHANGED <<db, loc>>

\* await set_player_faction(str(interaction.user.id), interaction.user.name, faction)
join_faction_set(t) ==
  /\ pc[t] = "join_set"
  /\ players' = set_player_faction(players, call[t].user, call[t].name, Faction(t))
  /\ Reply(t, "ok")
  /\ UNCHANGED <<factions, stations, station_members, loc>>

whoami(t, c) ==
  /\ c.op = "whoami"
  /\ Enter(t, c, Gate(c, FALSE), "whoami_get")
  /\ UNCHANGED db

\* row = await get_player(str(interaction.user.id))
whoami_get(t) ==
  /\ pc[t] = "whoami_get"
  /\ IF get_player(call[t].user) # {}
       THEN /\ loc' = [loc EXCEPT ![t] =
                 [faction_key |-> (CHOOSE r \in get_player(call[t].user) : TRUE).faction_key]]
            /\ Reply(t, "ok")
       ELSE /\ UNCHANGED loc
            /\ Reply(t, "unassigned")
  /\ UNCHANGED db

\* ----------------------------------------------- stations, station_members
\* SELECT s.station_id, ..., (SELECT COUNT(*) FROM station_members ...)
list_stations_db ==
  [s \in DOMAIN stations |->
     [name |-> stations[s].name, type |-> stations[s].type,
      owner_faction |-> stations[s].owner_faction,
      members_count |-> BagCardinality(list_station_members_db(s))]]

stations_cmd(t, c) ==
  /\ c.op = "stations"
  /\ Enter(t, c, Gate(c, FALSE), "stations_list")
  /\ UNCHANGED db

stations_cmd_list(t) ==
  /\ pc[t] = "stations_list"
  /\ IF DOMAIN list_stations_db = {}
       THEN /\ UNCHANGED loc
            /\ Reply(t, "empty")
       ELSE /\ loc' = [loc EXCEPT ![t] = [rows |-> list_stations_db]]
            /\ Reply(t, "ok")
  /\ UNCHANGED db

station_members_cmd(t, c) ==
  /\ c.op = "station_members"
  /\ Enter(t, c, Gate(c, FALSE), "members_exists")
  /\ UNCHANGED db

station_members_cmd_exists(t) ==
  /\ pc[t] = "members_exists"
  /\ IF StationId(t) \in DOMAIN stations
       THEN Goto(t, "members_list")
       ELSE Reply(t, "not_found")
  /\ UNCHANGED <<db, loc>>

\* members = await list_station_members_db(station_id)
station_members_cmd_list(t) ==
  /\ pc[t] = "members_list"
  /\ IF list_station_members_db(StationId(t)) = EmptyBag
       THEN /\ UNCHANGED loc
            /\ Reply(t, "empty")
       ELSE /\ loc' = [loc EXCEPT ![t] = [members |-> list_station_members_db(StationId(t))]]
            /\ Reply(t, "ok")
  /\ UNCHANGED db

\* ------------------------------------------------------ on_ready, db_init
\* The order in which DEFAULT_FACTIONS.items() yields the catalogue.
FactionOrder == <<"LDF", "CMC", "IND", "UN">>

\* Variant that replaces the table by the row.
upsert_faction_only(tbl, key, row) == [k \in {key} |-> row]

\* INSERT INTO factions ... ON CONFLICT (key) DO UPDATE SET name, side, playable
upsert_faction(tbl, key, row) ==
  [k \in DOMAIN tbl \cup {key} |-> IF k = key THEN row ELSE tbl[k]]

\* on_ready fires on every (re)connection and calls db_init; no gate.
on_ready(t, c) ==
  /\ c.op = "on_ready"
  /\ Enter(t, c, "run", "init_tables")
  /\ UNCHANGED db

\* The CREATE TABLE IF NOT EXISTS statements: the tables exist.
db_init_tables(t) ==
  /\ pc[t] = "init_tables"
  /\ loc' = [loc EXCEPT ![t] = [i |-> 1]]
  /\ Goto(t, "init_seed")
  /\ UNCHANGED db

\* One turn of the loop `for k, v in DEFAULT_FACTIONS.items()`.
db_init_seed(t) ==
  /\ pc[t] = "init_seed"
  /\ LET k == FactionOrder[loc[t].i]
     IN factions' = upsert_faction(factions, k, DEFAULT_FACTIONS[k])
  /\ IF loc[t].i < Len(FactionOrder)
       THEN /\ loc' = [loc EXCEPT ![t] = [i |-> loc[t].i + 1]]
            /\ Goto(t, "init_seed")
       ELSE /\ UNCHANGED loc
            /\ Reply(t, "ok")
  /\ UNCHANGED <<players, stations, station_members>>

\* --------------------------------------------------------- storage errors
\* The positions at which the next statement of a handler writes to the
\* store.
WritePcs ==
  {"create_insert", "member_add_insert", "member_remove_delete",
   "type_update", "type_raise", "condition_update", "protection_update",
   "add_set", "take_set", "join_set"}

\* The statement raises (connection lost, pool closed): nothing is written,
\* the handler is abandoned and on_app_command_error reports the error.
WriteFails(t) ==
  /\ pc[t] \in WritePcs
  /\ Reply(t, "storage_error")
  /\ UNCHANGED <<db, loc>>

\* ------------------------------------------------------------------ inputs
\* Wall-clock times of invocation: Wednesday 15:00 (open), Wednesday 23:00
\* (closed).
WedOpen == [weekday |-> 2, minute |-> time(15, 0)]
WedClosed == [weekday |-> 2, minute |-> time(23, 0)]

Create(now, staff, station_id, name, station_type, owner_faction, member_count) ==
  [op |-> "create_station", now |-> now, staff |-> staff, station_id |-> station_id,
   name |-> name, station_type |-> station_type, owner_faction |-> owner_faction,
   member_count |-> member_count]

Info(now, station_id) ==
  [op |-> "station_info", now |-> now, staff |-> FALSE, station_id |-> station_id]

SetType(now, staff, station_id, station_type) ==
  [op |-> "station_set_type", now |-> now, staff |-> staff, station_id |-> station_id,
   station_type |-> station_type]

SetCondition(now, staff, station_id, condition) ==
  [op |-> "station_set_condition", now |-> now, staff |-> staff,
   station_id |-> station_id, condition |-> condition]

SetProtection(now, staff, station_id, hours) ==
  [op |-> "station_set_protection", now |-> now, staff |-> staff,
   station_id |-> station_id, hours |-> hours]

Member(op, now, staff, user, station_id) ==
  [op |-> op, now |-> now, staff |-> staff, user |-> user, station_id |-> station_id]

Ping(now) == [op |-> "ping", now |-> now, staff |-> FALSE]

Ready(now) == [op |-> "on_ready", now |-> now, staff |-> FALSE]

Factions(now) == [op |-> "factions", now |-> now, staff |-> FALSE]

Stations(now) == [op |-> "stations", now |-> now, staff |-> FALSE]

Members(now, station_id) ==
  [op |-> "station_members", now |-> now, staff |-> FALSE, station_id |-> station_id]

Join(now, user, name, faction) ==
  [op |-> "join_faction", now |-> now, staff |-> FALSE, user |-> user,
   name |-> name, faction |-> faction]

WhoAmI(now, user) == [op |-> "whoami", now |-> now, staff |-> FALSE, user |-> user]

Show(now, station_id) ==
  [op |-> "resource_show", now |-> now, staff |-> FALSE, station_id |-> station_id]

Resource(op, now, staff, station_id, zone, item, amount) ==
  [op |-> op, now |-> now, staff |-> staff, station_id |-> station_id,
   zone |-> zone, item |-> item, amount |-> amount]

\* ------------------------------------------------------------------- Init
InitTasks ==
  /\ pc = [t \in Tasks |-> "idle"]
  /\ call = [t \in Tasks |-> NoCall]
  /\ loc = [t \in Tasks |-> NoLoc]
  /\ result = [t \in Tasks |-> "none"]
  /\ ncalls = 0
  /\ solo = 0
  /\ pre = NoStations
  /\ last = NoLast
\* A store the commands lead to: create_station hq as CAMP, then
\* station_add_member and resource_add on it.
SeededStations ==
  InsertStation(NoStations, "hq",
    [NewStation("Nadbor", "CAMP", "LDF", 0) EXCEPT
       !.resources = PutItem(default_resources, "lager", "wood", 3)])

SeededMembers == SetToBag({<<"hq", "u1">>})

\* ---------------------------------------------- Spec: station lifecycle
\* Concurrent create_station, station_set_type, station_set_condition,
\* station_set_protection and station_info on the station hq.
LifecycleCreateCalls ==
  { Create(WedOpen, TRUE, "HQ ", "Berezino", "strategisch", "ldf", 5) }

LifecycleInfoCalls == { Info(WedOpen, "HQ") }

LifecycleTypeCalls ==
  { SetType(WedOpen, TRUE, "hq", "strategisch"),
    SetType(WedOpen, TRUE, "hq", "CAMP"),
    SetType(WedOpen, TRUE, "hq", "burg"),
    SetType(WedOpen, FALSE, "hq", "STRATEGISCH") }

LifecycleConditionCalls ==
  { SetCondition(WedOpen, TRUE, "hq", 0 - 5),
    SetCondition(WedOpen, TRUE, "hq", 40),
    SetCondition(WedOpen, TRUE, "hq", 150) }

LifecycleProtectionCalls ==
  { SetProtection(WedOpen, TRUE, "hq", 0 - 1),
    SetProtection(WedOpen, TRUE, "hq", 10),
    SetProtection(WedClosed, TRUE, "hq", 10) }

\* The store after db_init (the seeded catalogue and no other row), or that
\* store with the seeded station.
Init ==
  /\ InitTasks
  /\ factions = DEFAULT_FACTIONS
  /\ players = NoPlayers
  /\ \/ stations = NoStations /\ station_members = EmptyBag
     \/ stations = SeededStations /\ station_members = SeededMembers

Next ==
  \E t \in Tasks :
    \/ \E c \in LifecycleCreateCalls : create_station(t, c)
    \/ create_station_exists(t)
    \/ create_station_db(t)
    \/ \E c \in LifecycleInfoCalls : station_info(t, c)
    \/ station_info_get(t)
    \/ station_info_members(t)
    \/ \E c \in LifecycleTypeCalls : station_set_type(t, c)
    \/ station_set_type_exists(t)
    \/ station_set_type_update(t)
    \/ station_set_type_get(t)
    \/ station_set_type_raise(t)
    \/ \E c \in LifecycleConditionCalls : station_set_condition(t, c)
    \/ station_set_condition_exists(t)
    \/ station_set_condition_update(t)
    \/ \E c \in LifecycleProtectionCalls : station_set_protection(t, c)
    \/ station_set_protection_exists(t)
    \/ station_set_protection_update(t)
    \/ Return(t)

Spec == Init /\ [][Next]_vars
\* ------------------------------------------ SpecCreate: station creation
\* Concurrent create_station calls on the ids hq and fob, with every known
\* type just below and at its minimum member count.
CreateAt(station_type, member_count) ==
  CASE station_type = "CAMP" ->
         Create(WedOpen, TRUE, "hq", "Nadbor", "CAMP", "LDF", member_count)
    [] station_type = "DORF" ->
         Create(WedOpen, TRUE, "HQ ", "Berezino", "Dorf ", "cmc", member_count)
    [] station_type = "SIEDLUNG" ->
         Create(WedOpen, TRUE, "fob", "Gliniska", "SIEDLUNG", "IND", member_count)
    [] station_type = "AUSSENPOSTEN" ->
         Create(WedOpen, TRUE, "HQ", "Topolin", "AUSSENPOSTEN", "un", member_count)
    [] OTHER ->
         Create(WedOpen, TRUE, "hq", "Radunin", "strategisch", "xyz", member_count)

CreateCalls ==
  { CreateAt(ty, STATION_TYPES[ty].min_players + d) :
      ty \in DOMAIN STATION_TYPES, d \in {0 - 1, 0} }
  \cup
  { CreateAt("STRATEGISCH", 10),
    Create(WedOpen, TRUE, "fob", "Burg", "burg", "LDF", 10),
    Create(WedClosed, TRUE, "fob", "Gliniska", "CAMP", "LDF", 10),
    Create(WedOpen, FALSE, "fob", "Gliniska", "CAMP", "LDF", 10) }

CreateMemberCalls ==
  { Member("station_add_member", WedOpen, TRUE, "u2", "fob"),
    Member("station_add_member", WedOpen, TRUE, "u1", "HQ") }

InitCreate == Init

NextCreate ==
  \E t \in Tasks :
    \/ \E c \in CreateCalls : create_station(t, c)
    \/ create_station_exists(t)
    \/ create_station_db(t)
    \/ \E c \in CreateMemberCalls : station_add_member(t, c)
    \/ station_add_member_exists(t)
    \/ station_add_member_db(t)
    \/ Return(t)

SpecCreate == InitCreate /\ [][NextCreate]_vars

\* ---------------------------------------------- SpecRes: resource ledger
\* Every handler slot runs one resource command on the station hq, in any
\* interleaving with the others.
ResourceAddCalls ==
  { Resource("resource_add", WedOpen, TRUE, "hq", "lager", "wood", 1),
    Resource("resource_add", WedOpen, TRUE, "HQ ", "Lager", "Wood", 1),
    Resource("resource_add", WedOpen, TRUE, "hq", " Bauhaus", "iron", 2),
    Resource("resource_add", WedOpen, TRUE, "hq", "keller", "wood", 1),
    Resource("resource_add", WedOpen, TRUE, "fob", "lager", "wood", 1) }

ResourceTakeCalls ==
  { Resource("resource_take", WedOpen, TRUE, "hq", "lager", "wood", 1),
    Resource("resource_take", WedOpen, TRUE, "hq", "lager", "iron", 5),
    Resource("resource_take", WedOpen, FALSE, "hq", "lager", "wood", 1) }

InitRes ==
  /\ InitTasks
  /\ factions = DEFAULT_FACTIONS
  /\ players = NoPlayers
  /\ stations = SeededStations
  /\ station_members = SeededMembers

NextRes ==
  \E t \in Tasks :
    \/ \E c \in ResourceAddCalls : resource_add(t, c)
    \/ resource_add_exists(t)
    \/ resource_add_get(t)
    \/ resource_add_set(t)
    \/ \E c \in ResourceTakeCalls : resource_take(t, c)
    \/ resource_take_exists(t)
    \/ resource_take_get(t)
    \/ resource_take_set(t)

SpecRes == InitRes /\ [][NextRes]_vars
\* ------------------------------------- SpecLedger: ledger of one station
\* resource_add, resource_take and resource_show on the station hq, one
\* after another or interleaved, with amounts below, at and above the stock.
LedgerAddCalls ==
  { Resource("resource_add", WedOpen, TRUE, "hq", "lager", "wood", 1),
    Resource("resource_add", WedOpen, TRUE, "hq", "lager", "iron", 2),
    Resource("resource_add", WedOpen, TRUE, "hq", "lager", "wood", 0 - 5) }

LedgerTakeCalls ==
  { Resource("resource_take", WedOpen, TRUE, "hq", "lager", "wood", 1),
    Resource("resource_take", WedOpen, TRUE, "HQ ", "Lager", "iron", 2),
    Resource("resource_take", WedOpen, TRUE, "hq", "lager", "wood", 5),
    Resource("resource_take", WedOpen, TRUE, "hq", "lager", "wood", 0 - 2),
    Resource("resource_take", WedOpen, TRUE, "hq", "keller", "wood", 1) }

LedgerShowCalls == { Show(WedOpen, "hq") }

InitLedger == InitRes

NextLedger ==
  \E t \in Tasks :
    \/ \E c \in LedgerAddCalls : resource_add(t, c)
    \/ resource_add_exists(t)
    \/ resource_add_get(t)
    \/ resource_add_set(t)
    \/ \E c \in LedgerTakeCalls : resource_take(t, c)
    \/ resource_take_exists(t)
    \/ resource_take_get(t)
    \/ resource_take_set(t)
    \/ \E c \in LedgerShowCalls : resource_show(t, c)
    \/ resource_show_exists(t)
    \/ resource_show_get(t)
    \/ Return(t)

SpecLedger == InitLedger /\ [][NextLedger]_vars

\* ------------------------------------------------- SpecMembers: rosters
\* u1 is a member of hq from the start, u2 is not; fob does not exist.
MemberAddCalls ==
  { Member("station_add_member", WedOpen, TRUE, "u1", "HQ "),
    Member("station_add_member", WedOpen, TRUE, "u2", "hq"),
    Member("station_add_member", WedOpen, TRUE, "u2", "fob") }

MemberRemoveCalls ==
  { Member("station_remove_member", WedOpen, TRUE, "u2", "hq"),
    Member("station_remove_member", WedOpen, TRUE, "u1", "HQ") }

InitMembers == InitRes

NextMembers ==
  \E t \in Tasks :
    \/ \E c \in MemberAddCalls : station_add_member(t, c)
    \/ station_add_member_exists(t)
    \/ station_add_member_db(t)
    \/ \E c \in MemberRemoveCalls : station_remove_member(t, c)
    \/ station_remove_member_exists(t)
    \/ station_remove_member_db(t)
    \/ Return(t)

SpecMembers == InitMembers /\ [][NextMembers]_vars

\* ------------------------------------------- SpecFaction: faction choice
SeededPlayers == {PlayerRow("u1", "anna", "LDF")}

JoinCalls ==
  { Join(WedOpen, "u1", "anna", "un"),
    Join(WedOpen, "u1", "anna", "cmc"),
    Join(WedOpen, "u2", "ben", "UN"),
    Join(WedOpen, "u2", "ben", "xyz"),
    Join(WedOpen, "u2", "ben", " ind"),
    Join(WedOpen, "u1", "anna", " ind"),
    Join(WedClosed, "u2", "ben", "LDF") }

WhoAmICalls == { WhoAmI(WedOpen, "u1"), WhoAmI(WedOpen, "u2") }

InitFaction ==
  /\ InitTasks
  /\ factions = DEFAULT_FACTIONS
  /\ players \in {NoPlayers, SeededPlayers}
  /\ stations = NoStations
  /\ station_members = EmptyBag

NextFaction ==
  \E t \in Tasks :
    \/ \E c \in JoinCalls : join_faction(t, c)
    \/ join_faction_fetch(t)
    \/ join_faction_set(t)
    \/ \E c \in WhoAmICalls : whoami(t, c)
    \/ whoami_get(t)
    \/ Return(t)

SpecFaction == InitFaction /\ [][NextFaction]_vars

\* ------------------------------------- SpecGate: one command at a time
\* Every command, invoked on its own in and out of opening hours, by staff
\* and by other callers, with arguments it accepts and arguments it refuses.
SatNight == [weekday |-> 5, minute |-> time(0, 30)]
SatMorning == [weekday |-> 5, minute |-> time(11, 59)]

GateTimes == {WedOpen, WedClosed, SatNight, SatMorning}

By(c, staff) == [c EXCEPT !.staff = staff]

GateReadCalls ==
  { By(c, staff) :
      c \in UNION { {Factions(now), Stations(now), WhoAmI(now, "u1"), WhoAmI(now, "u2"),
                     Join(now, "u1", "anna", "cmc"), Join(now, "u2", "ben", "un"),
                     Info(now, "HQ"), Info(now, "fob"),
                     Members(now, "hq"), Members(now, "fob"),
                     Show(now, "hq"), Show(now, "fob")} : now \in GateTimes },
      staff \in BOOLEAN }

GateStationCalls ==
  UNION { { Create(now, staff, "fob", "Gliniska", "CAMP", "LDF", 1),
            Create(now, staff, "hq", "Nadbor", "burg", "xyz", 0),
            SetType(now, staff, "hq", "strategisch"),
            SetType(now, staff, "fob", "burg"),
            SetCondition(now, staff, "hq", 40),
            SetCondition(now, staff, "fob", 0 - 5),
            SetProtection(now, staff, "hq", 10),
            SetProtection(now, staff, "fob", 0 - 1),
            Member("station_add_member", now, staff, "u2", "hq"),
            Member("station_add_member", now, staff, "u2", "fob"),
            Member("station_remove_member", now, staff, "u1", "hq"),
            Member("station_remove_member", now, staff, "u1", "fob"),
            Resource("resource_add", now, staff, "hq", "lager", "iron", 2),
            Resource("resource_add", now, staff, "fob", "keller", "iron", 0 - 2),
            Resource("resource_take", now, staff, "hq", "lager", "wood", 1),
            Resource("resource_take", now, staff, "fob", "keller", "wood", 0 - 1) } :
          now \in GateTimes, staff \in BOOLEAN }

GatePingCalls == { By(Ping(now), staff) : now \in GateTimes, staff \in BOOLEAN }

InitGate ==
  /\ InitTasks
  /\ factions = DEFAULT_FACTIONS
  /\ \/ /\ players = NoPlayers
        /\ stations = NoStations
        /\ station_members = EmptyBag
     \/ /\ players = SeededPlayers
        /\ stations = SeededStations
        /\ station_members = SeededMembers

NextGate ==
  \E t \in Tasks :
    \/ /\ AllIdle
       /\ \/ \E c \in GatePingCalls : ping(t, c)
          \/ \E c \in GateReadCalls :
               \/ factions_cmd(t, c)
               \/ stations_cmd(t, c)
               \/ whoami(t, c)
               \/ join_faction(t, c)
               \/ station_info(t, c)
               \/ station_members_cmd(t, c)
               \/ resource_show(t, c)
          \/ \E c \in GateStationCalls :
               \/ create_station(t, c)
               \/ station_set_type(t, c)
               \/ station_set_condition(t, c)
               \/ station_set_protection(t, c)
               \/ station_add_member(t, c)
               \/ station_remove_member(t, c)
               \/ resource_add(t, c)
               \/ resource_take(t, c)
    \/ factions_cmd_fetch(t)
    \/ stations_cmd_list(t)
    \/ whoami_get(t)
    \/ join_faction_fetch(t)
    \/ join_faction_set(t)
    \/ station_info_get(t)
    \/ station_info_members(t)
    \/ station_members_cmd_exists(t)
    \/ station_members_cmd_list(t)
    \/ resource_show_exists(t)
    \/ resource_show_get(t)
    \/ create_station_exists(t)
    \/ create_station_db(t)
    \/ station_set_type_exists(t)
    \/ station_set_type_update(t)
    \/ station_set_type_get(t)
    \/ station_set_type_raise(t)
    \/ station_set_condition_exists(t)
    \/ station_set_condition_update(t)
    \/ station_set_protection_exists(t)
    \/ station_set_protection_update(t)
    \/ station_add_member_exists(t)
    \/ station_add_member_db(t)
    \/ station_remove_member_exists(t)
    \/ station_remove_member_db(t)
    \/ resource_add_exists(t)
    \/ resource_add_get(t)
    \/ resource_add_set(t)
    \/ resource_take_exists(t)
    \/ resource_take_get(t)
    \/ resource_take_set(t)

SpecGate == InitGate /\ [][NextGate]_vars

\* ------------------------------------------------ SpecClock: the schedule
\* The factions command invoked at every minute of every day of the week.
ClockCalls ==
  { Factions([weekday |-> d, minute |-> m]) : d \in 0..6, m \in 0..(24 * 60 - 1) }

InitClock == InitFaction

NextClock ==
  \E t \in Tasks :
    \/ AllIdle /\ \E c \in ClockCalls : factions_cmd(t, c)
    \/ factions_cmd_fetch(t)

SpecClock == InitClock /\ [][NextClock]_vars

\* ------------------------------------ SpecStorage: writes that can fail
StorageCalls ==
  { SetType(WedOpen, TRUE, "hq", "strategisch"),
    SetType(WedOpen, TRUE, "HQ ", "CAMP"),
    SetCondition(WedOpen, TRUE, "hq", 40),
    Resource("resource_add", WedOpen, TRUE, "hq", "lager", "wood", 1) }

InitStorage == InitRes

NextStorage ==
  \E t \in Tasks :
    \/ \E c \in StorageCalls :
         \/ station_set_type(t, c)
         \/ station_set_condition(t, c)
         \/ resource_add(t, c)
    \/ station_set_type_exists(t)
    \/ station_set_type_update(t)
    \/ station_set_type_get(t)
    \/ station_set_type_raise(t)
    \/ station_set_condition_exists(t)
    \/ station_set_condition_update(t)
    \/ resource_add_exists(t)
    \/ resource_add_get(t)
    \/ resource_add_set(t)
    \/ WriteFails(t)
    \/ Return(t)

SpecStorage == InitStorage /\ [][NextStorage]_vars

\* ------------------------------------------- SpecSeed: seeding again
\* on_ready firing again while commands are served.
SeedCalls == { Ready(WedOpen), Ready(WedClosed) }

SeedJoinCalls ==
  { Join(WedOpen, "u1", "anna", "cmc"),
    Join(WedOpen, "u2", "ben", "un") }

SeedAddCalls ==
  { Resource("resource_add", WedOpen, TRUE, "hq", "lager", "wood", 1) }

InitSeed ==
  /\ InitTasks
  /\ factions = DEFAULT_FACTIONS
  /\ players = SeededPlayers
  /\ stations = SeededStations
  /\ station_members = SeededMembers

NextSeed ==
  \E t \in Tasks :
    \/ \E c \in SeedCalls : on_ready(t, c)
    \/ db_init_tables(t)
    \/ db_init_seed(t)
    \/ \E c \in SeedJoinCalls : join_faction(t, c)
    \/ join_faction_fetch(t)
    \/ join_faction_set(t)
    \/ \E c \in SeedAddCalls : resource_add(t, c)
    \/ resource_add_exists(t)
    \/ resource_add_get(t)
    \/ resource_add_set(t)
    \/ Return(t)

SpecSeed == InitSeed /\ [][NextSeed]_vars

\* --------------------------------------- SpecRefused: refused commands
\* Commands the handlers refuse (unknown type, zone outside the four, station
\* fob that does not exist) next to a create_station that brings fob into
\* existence and a resource_add that succeeds.
RefusedCalls ==
  { SetType(WedOpen, TRUE, "hq", "burg"),
    SetType(WedOpen, TRUE, "fob", "strategisch"),
    SetCondition(WedOpen, TRUE, "fob", 40),
    SetProtection(WedOpen, TRUE, "fob", 10),
    Member("station_add_member", WedOpen, TRUE, "u2", "fob"),
    Member("station_remove_member", WedOpen, TRUE, "u1", "fob"),
    Resource("resource_add", WedOpen, TRUE, "hq", "keller", "wood", 1),
    Resource("resource_take", WedOpen, TRUE, "fob", "lager", "wood", 1),
    Resource("resource_take", WedOpen, TRUE, "hq", "Keller", "wood", 1),
    Resource("resource_add", WedOpen, TRUE, "fob", "lager", "iron", 2),
    Create(WedOpen, TRUE, "fob", "Gliniska", "CAMP", "LDF", 1) }

InitRefused == InitRes

NextRefused ==
  \E t \in Tasks :
    \/ \E c \in RefusedCalls :
         \/ station_set_type(t, c)
         \/ station_set_condition(t, c)
         \/ station_set_protection(t, c)
         \/ station_add_member(t, c)
         \/ station_remove_member(t, c)
         \/ resource_add(t, c)
         \/ resource_take(t, c)
         \/ create_station(t, c)
    \/ station_set_type_exists(t)
    \/ station_set_type_update(t)
    \/ station_set_type_get(t)
    \/ station_set_type_raise(t)
    \/ station_set_condition_exists(t)
    \/ station_set_condition_update(t)
    \/ station_set_protection_exists(t)
    \/ station_set_protection_update(t)
    \/ station_add_member_exists(t)
    \/ station_add_member_db(t)
    \/ station_remove_member_exists(t)
    \/ station_remove_member_db(t)
    \/ resource_add_exists(t)
    \/ resource_add_get(t)
    \/ resource_add_set(t)
    \/ resource_take_exists(t)
    \/ resource_take_get(t)
    \/ resource_take_set(t)
    \/ create_station_exists(t)
    \/ create_station_db(t)
    \/ Return(t)

SpecRefused == InitRefused /\ [][NextRefused]_vars

\* ================================================================ claims
\* A handler takes a step.
Stepped(t) == pc'[t] # pc[t]

\* The command a stepping handler belongs to.
ActiveCall(t) == IF pc[t] = "idle" THEN call'[t] ELSE call[t]

Failures ==
  {"closed", "denied", "invalid_type", "below_min", "exists", "not_found",
   "invalid_zone", "error"}

Items == {"wood", "iron"}

IsResourceCall(t) ==
  pc[t] # "idle" /\ call[t].op \in {"resource_add", "resource_take"}

OnCounter(t, station_id, zone, item) ==
  /\ IsResourceCall(t)
  /\ StationId(t) = station_id
  /\ Zone(t) = zone
  /\ Item(t) = item

Quiescent == \A u \in Tasks : pc[u] \in {"idle", "done"}

\* C1: when the commands that ran are N resource_add(station, zone, item, 1)
\* on one counter and all of them have completed, the counter has grown by
\* exactly N.
C1_NoLostAdd ==
  \A zone \in Zones, item \in Items :
    LET ran == {t \in Tasks : pc[t] # "idle"}
        adds == {t \in ran : /\ OnCounter(t, "hq", zone, item)
                             /\ call[t].op = "resource_add"
                             /\ call[t].amount = 1
                             /\ result[t] = "ok"}
    IN (Quiescent /\ ran = adds) =>
         Quantity(stations["hq"].resources, zone, item)
           = Quantity(SeededStations["hq"].resources, zone, item) + Cardinality(adds)

\* C2: once every resource command has completed, a counter that only one
\* of them targeted holds the value that command computed for it.
C2_DifferentCountersKeepBoth ==
  \A t \in Tasks :
    ( /\ Quiescent
      /\ IsResourceCall(t)
      /\ result[t] = "ok"
      /\ \A u \in Tasks \ {t} : ~OnCounter(u, StationId(t), Zone(t), Item(t)) )
    => Quantity(stations[StationId(t)].resources, Zone(t), Item(t)) = loc[t].new
\* ------------------------------------------------------------------- C3
\* C3: every stored station has a condition in 0..100, protection hours of
\* at least 0 and one of the five known types.
C3_StationFieldsInRange ==
  \A s \in DOMAIN stations :
    /\ stations[s].condition \in 0..100
    /\ stations[s].protection_hours >= 0
    /\ stations[s].type \in {"CAMP", "DORF", "SIEDLUNG", "AUSSENPOSTEN", "STRATEGISCH"}

\* station_set_protection with negative hours and station_set_condition with
\* a value above 100 have both been applied to the station.
W3_ClampedWrites ==
  \E t, u \in Tasks :
    /\ pc[t] = "done" /\ pc[u] = "done"
    /\ call[t].op = "station_set_protection" /\ call[t].hours < 0 /\ result[t] = "ok"
    /\ call[u].op = "station_set_condition" /\ call[u].condition > 100 /\ result[u] = "ok"
    /\ stations["hq"].protection_hours = 0
    /\ stations["hq"].condition = 100

\* ------------------------------------------------------------------- C4
IsCreate(t) == ActiveCall(t).op = "create_station"

\* C4: no step of create_station changes or removes an existing station or
\* a roster entry; a create_station whose id is taken does not succeed; and
\* the insert that succeeds stores the fields of its own call.
C4_CreateNeverOverwrites ==
  [][\A t \in Tasks :
       (Stepped(t) /\ IsCreate(t)) =>
         /\ \A s \in DOMAIN stations :
              s \in DOMAIN stations' /\ stations'[s] = stations[s]
         /\ station_members' = station_members
         /\ (pc'[t] = "done" /\ strip(lower(ActiveCall(t).station_id)) \in DOMAIN stations)
              => result'[t] \in Failures
         /\ (pc'[t] = "done" /\ result'[t] = "ok")
              => /\ stations'[StationId(t)].name = call[t].name
                 /\ stations'[StationId(t)].type = StationType(t)
                 /\ stations'[StationId(t)].owner_faction = strip(upper(call[t].owner_faction))
    ]_vars

\* Two create_station calls for one id both passed the station_exists check;
\* the insert of the second was rejected and the station is the first one's.
W4_SecondInsertRejected ==
  \E t \in Tasks :
    /\ pc[t] = "done"
    /\ call[t].op = "create_station"
    /\ result[t] = "error"
    /\ StationId(t) \in DOMAIN stations
    /\ stations[StationId(t)].name # call[t].name

\* ------------------------------------------------------------------- C5
MinimumMembers ==
  [CAMP |-> 1, DORF |-> 4, SIEDLUNG |-> 10, AUSSENPOSTEN |-> 5, STRATEGISCH |-> 5]

KnownType(c) == strip(upper(c.station_type)) \in DOMAIN MinimumMembers

Short(c) == c.member_count < MinimumMembers[strip(upper(c.station_type))]

\* C5: a create_station (open hours, staff caller) with a known type and a
\* member count below the type's minimum replies with a failure and none of
\* its steps changes the stations; with a member count at or above the
\* minimum and an id that is unused, run on its own, it replies ok and the
\* station exists.
C5_MinimumMembers ==
  /\ [](\A t \in Tasks :
          ( /\ pc[t] = "done"
            /\ call[t].op = "create_station"
            /\ is_open_now(call[t].now) /\ call[t].staff
            /\ KnownType(call[t]) )
          => /\ Short(call[t]) => result[t] \in Failures
             /\ (~Short(call[t]) /\ solo = t /\ StationId(t) \notin DOMAIN pre)
                  => result[t] = "ok" /\ StationId(t) \in DOMAIN stations)
  /\ [][\A t \in Tasks :
          ( /\ Stepped(t) /\ IsCreate(t)
            /\ KnownType(ActiveCall(t)) /\ Short(ActiveCall(t)) )
          => stations' = stations
       ]_vars

\* A SIEDLUNG with 9 reported members was refused and one with 10 created.
W5_NineRefusedTenCreated ==
  \E t, u \in Tasks :
    /\ pc[t] = "done" /\ pc[u] = "done"
    /\ call[t].op = "create_station" /\ call[u].op = "create_station"
    /\ StationType(t) = "SIEDLUNG" /\ call[t].member_count = 9
    /\ result[t] = "below_min"
    /\ StationType(u) = "SIEDLUNG" /\ call[u].member_count = 10
    /\ result[u] = "ok"
    /\ stations[StationId(u)].type = "SIEDLUNG"

\* ------------------------------------------------------------------- C6
\* C6: the station a successful create_station inserts has condition 100,
\* protection 48 for STRATEGISCH and 0 for every other type, no member, and
\* a ledger of exactly the four zones, each without items.
C6_FreshStation ==
  [][\A t \in Tasks :
       (pc[t] = "create_insert" /\ pc'[t] = "done" /\ result'[t] = "ok") =>
         LET row == stations'[StationId(t)]
         IN /\ row.condition = 100
            /\ row.protection_hours = (IF row.type = "STRATEGISCH" THEN 48 ELSE 0)
            /\ {m \in DOMAIN station_members' : m[1] = StationId(t)} = {}
            /\ DOMAIN row.resources = {"lager", "verarbeitung", "bauhaus", "produktion"}
            /\ \A z \in DOMAIN row.resources : DOMAIN row.resources[z] = {}
    ]_vars

\* A STRATEGISCH station was created by a call reporting 10 members (the
\* minimum is 5) and has 48 hours of protection.
W6_StrategicCreated ==
  \E t \in Tasks :
    /\ pc[t] = "done"
    /\ call[t].op = "create_station"
    /\ result[t] = "ok"
    /\ StationType(t) = "STRATEGISCH"
    /\ call[t].member_count = 10
    /\ stations[StationId(t)].protection_hours = 48
    /\ stations[StationId(t)].condition = 100
\* ------------------------------------------------------------------- C7
IsSetType(t) == ActiveCall(t).op = "station_set_type"

\* C7: a station_set_type that ran on its own on an existing station and
\* replied ok leaves protection_hours at 48 if the type is STRATEGISCH and
\* the hours were 0, and at their former value otherwise; no step of a
\* station_set_type to another type changes any station's protection_hours.
C7_StrategicRaise ==
  /\ [](\A t \in Tasks :
          ( /\ pc[t] = "done"
            /\ call[t].op = "station_set_type"
            /\ result[t] = "ok"
            /\ solo = t
            /\ StationId(t) \in DOMAIN pre )
          => LET before == pre[StationId(t)].protection_hours
                 after == stations[StationId(t)].protection_hours
             IN /\ stations[StationId(t)].type = StationType(t)
                /\ after = (IF StationType(t) = "STRATEGISCH" /\ before = 0
                              THEN 48 ELSE before))
  /\ [][\A t \in Tasks :
          ( /\ Stepped(t) /\ IsSetType(t)
            /\ strip(upper(ActiveCall(t).station_type)) # "STRATEGISCH" )
          => \A s \in DOMAIN stations :
               stations'[s].protection_hours = stations[s].protection_hours
       ]_vars

\* station_set_type(hq, STRATEGISCH) ran on its own on a station with 10
\* hours of protection, which still has 10.
W7_NonZeroKept ==
  \E t \in Tasks :
    /\ pc[t] = "done"
    /\ call[t].op = "station_set_type"
    /\ result[t] = "ok"
    /\ solo = t
    /\ StationType(t) = "STRATEGISCH"
    /\ StationId(t) \in DOMAIN pre
    /\ pre[StationId(t)].protection_hours = 10
    /\ stations[StationId(t)].protection_hours = 10

\* ------------------------------------------------------------------- C8
\* C8: station_set_type writes 48 only over protection hours that are 0 at
\* the moment of the write.
C8_RaiseOnlyOverZero ==
  [][\A t \in Tasks :
       (pc[t] = "type_raise" /\ Stepped(t)) =>
         stations[StationId(t)].protection_hours = 0
    ]_vars

\* ------------------------------------------------------------------- C9
\* A station_set_type to STRATEGISCH has written the type and has the raise
\* of the station's protection from 0 to 48 still ahead of it.
MidSetType(station_id) ==
  \E t \in Tasks :
    /\ pc[t] \in {"type_get", "type_raise"}
    /\ StationId(t) = station_id
    /\ StationType(t) = "STRATEGISCH"
    /\ station_id \in DOMAIN stations
    /\ stations[station_id].type = "STRATEGISCH"
    /\ stations[station_id].protection_hours = 0

\* C9: station_info never reads a station between the type write and the
\* protection raise of a station_set_type.
C9_NoIntermediateRead ==
  [][\A u \in Tasks :
       (pc[u] = "info_get" /\ Stepped(u)) => ~MidSetType(StationId(u))
    ]_vars

\* ------------------------------------------------------------------ C10
Clamped(value) == IF value < 0 THEN 0 ELSE IF value > 100 THEN 100 ELSE value

\* C10: the write of station_set_condition changes the station's condition
\* to the value clamped to 0..100 and nothing else in the stations and the
\* rosters, and replies ok; a station_set_condition (open hours, staff
\* caller) that ran on its own on an existing station replied ok and left
\* the station as it was except for that condition.
C10_ConditionClamped ==
  /\ [][\A t \in Tasks :
          (pc[t] = "condition_update" /\ Stepped(t)) =>
            /\ result'[t] = "ok"
            /\ StationId(t) \in DOMAIN stations
            /\ stations' = [stations EXCEPT ![StationId(t)] =
                 [stations[StationId(t)] EXCEPT !.condition = Clamped(call[t].condition)]]
            /\ station_members' = station_members
       ]_vars
  /\ [](\A t \in Tasks :
          ( /\ pc[t] = "done"
            /\ call[t].op = "station_set_condition"
            /\ is_open_now(call[t].now) /\ call[t].staff
            /\ solo = t
            /\ StationId(t) \in DOMAIN pre )
          => /\ result[t] = "ok"
             /\ stations = [pre EXCEPT ![StationId(t)] =
                  [pre[StationId(t)] EXCEPT !.condition = Clamped(call[t].condition)]])

\* station_set_condition(hq, -5) ran on its own on a station with members
\* and resources and left it with condition 0.
W10_NegativeClampedToZero ==
  \E t \in Tasks :
    /\ pc[t] = "done"
    /\ call[t].op = "station_set_condition"
    /\ call[t].condition < 0
    /\ result[t] = "ok"
    /\ solo = t
    /\ stations[StationId(t)].condition = 0
    /\ stations[StationId(t)].resources # default_resources
    /\ BagIn(<<StationId(t), "u1">>, station_members)
\* ------------------------------------------------------------------ C11
FourZones == {"lager", "verarbeitung", "bauhaus", "produktion"}

\* The quantity a ledger holds of an item, 0 for an item it does not list.
Held(res, zone, item) ==
  IF zone \in DOMAIN res /\ item \in DOMAIN res[zone] THEN res[zone][item] ELSE 0

Floor0(n) == IF n < 0 THEN 0 ELSE n

\* The handler ran alone, from entry to reply, on a station that existed.
RanAlone(t, op) ==
  /\ pc[t] = "done"
  /\ call[t].op = op
  /\ solo = t
  /\ StationId(t) \in DOMAIN pre

\* C11: a resource_take (open hours, staff caller, valid zone) that ran on
\* its own on an existing station replied ok, and both the stored quantity
\* and the quantity it replied are max(0, current - max(0, amount)).
C11_TakeFloorsAtZero ==
  \A t \in Tasks :
    ( /\ RanAlone(t, "resource_take")
      /\ is_open_now(call[t].now) /\ call[t].staff
      /\ Zone(t) \in FourZones )
    => LET current == Held(pre[StationId(t)].resources, Zone(t), Item(t))
           expected == Floor0(current - Floor0(call[t].amount))
       IN /\ result[t] = "ok"
          /\ Held(stations[StationId(t)].resources, Zone(t), Item(t)) = expected
          /\ loc[t].new = expected

\* resource_take(hq, lager, wood, 5) ran on a stock of 3 and left 0.
W11_TakeMoreThanStock ==
  \E t \in Tasks :
    /\ RanAlone(t, "resource_take")
    /\ result[t] = "ok"
    /\ call[t].amount = 5
    /\ Held(pre[StationId(t)].resources, Zone(t), Item(t)) = 3
    /\ Held(stations[StationId(t)].resources, Zone(t), Item(t)) = 0
    /\ loc[t].new = 0

\* ------------------------------------------------------------------ C12
\* A resource_take that ran alone right after a resource_add of the same
\* amount on the same counter, which ran alone too; both replied ok.
RoundTrip(t) ==
  /\ RanAlone(t, "resource_take")
  /\ result[t] = "ok"
  /\ last.call.op = "resource_add"
  /\ last.result = "ok"
  /\ strip(lower(last.call.station_id)) = StationId(t)
  /\ strip(lower(last.call.zone)) = Zone(t)
  /\ strip(lower(last.call.item)) = Item(t)
  /\ last.call.amount = call[t].amount

\* C12 as claimed: after the round trip the ledger is the ledger before it.
C12_RoundTripLedger ==
  \A t \in Tasks :
    RoundTrip(t) =>
      stations[StationId(t)].resources = last.pre[StationId(t)].resources

\* C12 as amended: after the round trip every counter holds the quantity it
\* held before; the ledger is the one before when it listed the item, and
\* otherwise the one before with the item added at quantity 0.
C12_RoundTripQuantities ==
  \A t \in Tasks :
    RoundTrip(t) =>
      LET before == last.pre[StationId(t)].resources
          after == stations[StationId(t)].resources
      IN /\ \A z \in FourZones, i \in Items : Held(after, z, i) = Held(before, z, i)
         /\ DOMAIN after = DOMAIN before
         /\ \A z \in DOMAIN after :
              DOMAIN after[z] = DOMAIN before[z] \cup (IF z = Zone(t) THEN {Item(t)} ELSE {})
         /\ Item(t) \in DOMAIN before[Zone(t)] => after = before

\* Round trips on an item the ledger listed and on one it did not.
W12_RoundTripDone ==
  \E t \in Tasks :
    /\ RoundTrip(t)
    /\ call[t].amount > 0
    /\ Item(t) \in DOMAIN last.pre[StationId(t)].resources[Zone(t)]
    /\ stations[StationId(t)].resources = last.pre[StationId(t)].resources

\* ------------------------------------------------------------------ C18
\* C18: every station's ledger has exactly the four zones and every
\* quantity in it is an integer that is at least 0.
C18_LedgerShape ==
  \A s \in DOMAIN stations :
    /\ DOMAIN stations[s].resources = FourZones
    /\ \A z \in DOMAIN stations[s].resources :
         \A i \in DOMAIN stations[s].resources[z] :
           stations[s].resources[z][i] \in Nat

\* A resource_add with a negative amount and a resource_take of more than
\* the stock have both been applied.
W18_NegativeAndOverdraw ==
  \E t, u \in Tasks :
    /\ pc[t] = "done" /\ call[t].op = "resource_add"
    /\ call[t].amount < 0 /\ result[t] = "ok"
    /\ pc[u] = "done" /\ call[u].op = "resource_take"
    /\ call[u].amount = 5 /\ result[u] = "ok" /\ loc[u].new = 0

\* ------------------------------------------------------------------ C19
ItemKeys(res) == [z \in DOMAIN res |-> DOMAIN res[z]]

\* C19: a resource_take of an item the zone does not list, and a
\* resource_show, leave the item keys of every zone as they were.
C19_NoSilentItems ==
  \A t \in Tasks :
    ( \/ /\ RanAlone(t, "resource_take")
         /\ Zone(t) \in FourZones
         /\ Item(t) \notin DOMAIN pre[StationId(t)].resources[Zone(t)]
      \/ RanAlone(t, "resource_show") )
    => ItemKeys(stations[StationId(t)].resources) = ItemKeys(pre[StationId(t)].resources)
\* ------------------------------------------------------------------ C13
Pair(t) == <<StationId(t), call[t].user>>

IsMember(pair) == pair \in DOMAIN station_members /\ station_members[pair] >= 1

RosterCount(station_id) ==
  LET rows == {m \in DOMAIN station_members : m[1] = station_id}
      Sum[S \in SUBSET rows] ==
        IF S = {} THEN 0
        ELSE LET m == CHOOSE x \in S : TRUE IN station_members[m] + Sum[S \ {m}]
  IN Sum[rows]

NoPairTwice == \A m \in DOMAIN station_members : station_members[m] = 1

\* The insert of station_add_member on an existing station: a pair that is
\* on the roster leaves the roster and its count as they are, a pair that is
\* not is on it once afterwards.
AddIdempotent ==
  \A t \in Tasks :
    (pc[t] = "member_add_insert" /\ Stepped(t) /\ StationId(t) \in DOMAIN stations)
    => /\ result'[t] = "ok"
       /\ IF IsMember(Pair(t))
            THEN /\ station_members' = station_members
                 /\ RosterCount(StationId(t))' = RosterCount(StationId(t))
            ELSE /\ station_members'[Pair(t)] = 1
                 /\ RosterCount(StationId(t))' = RosterCount(StationId(t)) + 1

\* The delete of station_remove_member for a pair that is not on the roster
\* changes nothing and replies ok.
RemoveAbsentNoOp ==
  \A t \in Tasks :
    (pc[t] = "member_remove_delete" /\ Stepped(t) /\ ~IsMember(Pair(t)))
    => /\ result'[t] = "ok"
       /\ station_members' = station_members

\* C13: adding a member who is on the roster and removing a user who is not
\* both leave the roster unchanged, and no (station_id, user_id) pair is on
\* the roster twice, under every interleaving of the handlers.
C13_MembershipIdempotent ==
  /\ []NoPairTwice
  /\ [][AddIdempotent /\ RemoveAbsentNoOp]_vars

\* Two station_add_member calls for (hq, u2) are both past the existence
\* check before either inserts; both replied ok and the pair is there once.
W13_InterleavedAdds ==
  \E t, u \in Tasks :
    /\ t # u
    /\ pc[t] = "done" /\ pc[u] = "done"
    /\ call[t].op = "station_add_member" /\ call[u].op = "station_add_member"
    /\ Pair(t) = <<"hq", "u2">> /\ Pair(u) = <<"hq", "u2">>
    /\ result[t] = "ok" /\ result[u] = "ok"
    /\ solo = 0
    /\ station_members[<<"hq", "u2">>] = 1
    /\ RosterCount("hq") = 2
\* ------------------------------------------------------------------ C14
CatalogueKeys == {"LDF", "CMC", "IND", "UN"}

IsJoin(t) == ActiveCall(t).op = "join_faction"

JoinKey(t) == strip(upper(ActiveCall(t).faction))

\* C14: no step of a join_faction whose key is UN or is not in the
\* catalogue changes the players table, and in opening hours the handler
\* replies "not playable" for UN and "unknown faction" for the others.
C14_JoinRefused ==
  [][\A t \in Tasks :
       (Stepped(t) /\ IsJoin(t) /\ (JoinKey(t) = "UN" \/ JoinKey(t) \notin CatalogueKeys))
       => /\ players' = players
          /\ result'[t] # "ok"
          /\ (pc'[t] = "done" /\ ActiveCall(t).now = WedOpen)
               => result'[t] = (IF JoinKey(t) = "UN" THEN "not_playable" ELSE "unknown")]_vars

\* u1, assigned to LDF, asked for UN and is still in LDF; u2, unassigned,
\* asked for an unknown key and is still unassigned.
W14_AssignmentKept ==
  \E t, u \in Tasks :
    /\ pc[t] = "done" /\ call[t].op = "join_faction"
    /\ call[t].user = "u1" /\ Faction(t) = "UN" /\ result[t] = "not_playable"
    /\ {r \in players : r.user_id = "u1"} = {[user_id |-> "u1", name |-> "anna", faction_key |-> "LDF"]}
    /\ pc[u] = "done" /\ call[u].op = "join_faction"
    /\ call[u].user = "u2" /\ Faction(u) = "XYZ" /\ result[u] = "unknown"
    /\ {r \in players : r.user_id = "u2"} = {}
\* ------------------------------------------------------------------ C15
\* The weekly table, in minutes of the day: Monday to Thursday from 14:00
\* up to 23:00, Friday to Sunday from 12:00 on and before 01:00.
OpenMinutes(weekday) ==
  IF weekday \in {0, 1, 2, 3}
    THEN 840..1379
    ELSE (720..1439) \cup (0..59)

OpenAt(now) == now.minute \in OpenMinutes(now.weekday)

\* C15: a command other than ping invoked outside opening hours ends at
\* once with the closed reply, has read nothing and leaves the four tables
\* as they are, whoever calls it and whatever its arguments; invoked in
\* opening hours it does not reply closed.
C15_GateFirst ==
  [][\A t \in Tasks :
       (pc[t] = "idle" /\ Stepped(t) /\ call'[t].op # "ping")
       => IF OpenAt(call'[t].now)
            THEN result'[t] # "closed"
            ELSE /\ pc'[t] = "done"
                 /\ result'[t] = "closed"
                 /\ loc'[t] = NoLoc
                 /\ db' = db]_vars

\* create_station by a caller who is not staff, with an unknown type, on
\* Wednesday 23:00: the reply is closed, not denied or invalid type.
W15_ClosedBeforeOtherChecks ==
  \E t \in Tasks :
    /\ pc[t] = "done"
    /\ call[t].op = "create_station"
    /\ call[t].now = WedClosed
    /\ ~call[t].staff
    /\ call[t].station_type = "burg"
    /\ result[t] = "closed"
    /\ stations = SeededStations

StaffOps ==
  {"create_station", "station_add_member", "station_remove_member",
   "station_set_type", "station_set_condition", "station_set_protection",
   "resource_add", "resource_take"}

\* C17: no step of one of the eight staff commands invoked by a caller who
\* is not staff changes the stations (ledgers included) or the rosters, and
\* the command replies denied, or closed outside opening hours.
C17_StaffOnly ==
  [][\A t \in Tasks :
       (Stepped(t) /\ ActiveCall(t).op \in StaffOps /\ ~ActiveCall(t).staff)
       => /\ stations' = stations
          /\ station_members' = station_members
          /\ pc'[t] \in {"done", "idle"}
          /\ pc'[t] = "done" =>
               result'[t] = (IF OpenAt(ActiveCall(t).now) THEN "denied" ELSE "closed")]_vars

\* resource_take in opening hours by a caller who is not staff, with
\* arguments a staff caller would succeed with, was denied.
W17_Denied ==
  \E t \in Tasks :
    /\ pc[t] = "done"
    /\ call[t] = Resource("resource_take", WedOpen, FALSE, "hq", "lager", "wood", 1)
    /\ result[t] = "denied"
    /\ stations = SeededStations
    /\ station_members = SeededMembers

\* ------------------------------------------------------------------ C20
\* C20: the owner_faction of every stored station is a key of the factions
\* table.
C20_OwnerInCatalogue ==
  \A s \in DOMAIN stations : stations[s].owner_faction \in DOMAIN factions
\* ------------------------------------------------------------------ C21
\* C21: when a handler that ran on its own ends on a failed write, the
\* stations table is the one from before the handler started.
C21_FailedWriteKeepsState ==
  \A t \in Tasks :
    (pc[t] = "done" /\ solo = t /\ result[t] = "storage_error")
    => stations = pre
\* ------------------------------------------------------------------ C22
\* The catalogue: LDF, CMC and IND playable, UN not.
Catalogue ==
  [LDF |-> [name |-> "Livonian Defence Forces", side |-> "state", playable |-> TRUE],
   CMC |-> [name |-> "Chernarus Mining Corporation", side |-> "invader", playable |-> TRUE],
   IND |-> [name |-> "Unabhaengige", side |-> "independent", playable |-> TRUE],
   UN  |-> [name |-> "United Nations", side |-> "neutral_team", playable |-> FALSE]]

\* A step of db_init.
SeedStep ==
  \E t \in Tasks :
    /\ call[t].op = "on_ready"
    /\ pc[t] \in {"init_tables", "init_seed"}
    /\ (pc'[t] # pc[t] \/ loc'[t] # loc[t])

\* C22: the factions table is the catalogue of the first seed in every
\* state, during and after every later run of db_init, and no step of
\* db_init changes the players, the stations (ledgers included) or the
\* rosters.
C22_ReseedIdempotent ==
  /\ [](factions = Catalogue)
  /\ [][SeedStep => UNCHANGED <<players, stations, station_members>>]_vars

\* db_init has run to its end twice in a row on a store with a player, a
\* station and a roster.
W22_SeededAgain ==
  \E t \in Tasks :
    /\ pc[t] = "done" /\ call[t].op = "on_ready" /\ result[t] = "ok"
    /\ last.call.op = "on_ready" /\ last.result = "ok"
    /\ factions = Catalogue
    /\ players = SeededPlayers
    /\ stations = SeededStations
\* ------------------------------------------------------------------ C23
PlayableKeys == {"LDF", "CMC", "IND"}

RowsOf(tbl, user_id) == {r \in tbl : r.user_id = user_id}

Users(tbl) == {r.user_id : r \in tbl}

\* At most one row per user, with a playable key of the catalogue.
OneFaction ==
  /\ \A r, q \in players : r.user_id = q.user_id => r = q
  /\ \A r \in players : r.faction_key \in PlayableKeys

\* The players table changes only by the write of a join_faction that
\* replies ok: afterwards the caller has the one row with the key of that
\* call, the rows of the other users are the ones from before, and no user
\* has lost their row.
OnlySuccessfulJoinWrites ==
  players' # players =>
    /\ Users(players) \subseteq Users(players')
    /\ \E t \in Tasks :
         /\ Stepped(t) /\ IsJoin(t)
         /\ result'[t] = "ok"
         /\ JoinKey(t) \in PlayableKeys
         /\ RowsOf(players', call[t].user) =
              {[user_id |-> call[t].user, name |-> call[t].name, faction_key |-> JoinKey(t)]}
         /\ \A r \in players' : r.user_id # call[t].user => r \in players
         /\ \A r \in players : r.user_id # call[t].user => r \in players'

\* whoami that ran on its own right after a join_faction of the same user
\* that ran on its own and replied ok shows the key of that join.
WhoAmIShowsLastJoin ==
  \A t \in Tasks :
    ( /\ pc[t] = "done" /\ solo = t /\ call[t].op = "whoami"
      /\ call[t].now = WedOpen
      /\ last.call.op = "join_faction" /\ last.result = "ok"
      /\ last.call.user = call[t].user )
    => /\ result[t] = "ok"
       /\ loc[t].faction_key = strip(upper(last.call.faction))

\* A join_faction that ran on its own with a playable key replied ok.
PlayableJoinSucceeds ==
  \A t \in Tasks :
    ( /\ pc[t] = "done" /\ solo = t /\ call[t].op = "join_faction"
      /\ call[t].now = WedOpen
      /\ strip(upper(call[t].faction)) \in PlayableKeys )
    => result[t] = "ok"

\* C23: every user has at most one player row, its key is a playable key
\* written by one of that user's successful joins (or the key the user had
\* from the start), rows are never deleted, and whoami after a successful
\* join shows the key of that join.
C23_OneFactionPerPlayer ==
  /\ [](OneFaction /\ WhoAmIShowsLastJoin /\ PlayableJoinSucceeds)
  /\ [][OnlySuccessfulJoinWrites]_vars

\* u1, in LDF from the start, joined CMC and then IND; whoami shows IND and
\* u1 has the one row.
W23_Rejoined ==
  \E t \in Tasks :
    /\ pc[t] = "done" /\ solo = t /\ call[t] = WhoAmI(WedOpen, "u1")
    /\ last.call = Join(WedOpen, "u1", "anna", " ind") /\ last.result = "ok"
    /\ result[t] = "ok" /\ loc[t].faction_key = "IND"
    /\ players = {[user_id |-> "u1", name |-> "anna", faction_key |-> "IND"]}
    /\ ncalls = 3
\* ------------------------------------------------------------------ C24
TypedFailures ==
  {"invalid_type", "invalid_zone", "not_found", "exists", "below_min", "denied", "closed"}

FiveTypes == {"CAMP", "DORF", "SIEDLUNG", "AUSSENPOSTEN", "STRATEGISCH"}

\* The positions at which a handler tests whether the station exists.
ExistsPcs ==
  {"type_exists", "condition_exists", "protection_exists", "member_add_exists",
   "member_remove_exists", "add_exists", "take_exists"}

\* A handler replies a typed failure only from its entry or from its
\* existence test, and no step from either position writes: a handler that
\* replied a typed failure has written nothing.
FailureBeforeAnyWrite ==
  \A t \in Tasks :
    Stepped(t) =>
      /\ result'[t] \in TypedFailures
           => pc[t] \in {"idle", "create_exists"} \cup ExistsPcs
      /\ pc[t] \in {"idle", "create_exists"} \cup ExistsPcs
           => /\ db' = db
              /\ pc[t] # "idle" => call'[t] = call[t]

\* The failures of the claim: an unknown type, a zone outside the four and
\* a station that does not exist are refused with their failure.
RefusedAsClaimed ==
  \A t \in Tasks :
    Stepped(t) =>
      /\ ( /\ pc[t] = "idle" /\ call'[t].op = "station_set_type"
           /\ strip(upper(call'[t].station_type)) \notin FiveTypes )
           => pc'[t] = "done" /\ result'[t] = "invalid_type"
      /\ ( /\ pc[t] = "idle" /\ call'[t].op \in {"resource_add", "resource_take"}
           /\ strip(lower(call'[t].zone)) \notin FourZones )
           => pc'[t] = "done" /\ result'[t] = "invalid_zone"
      /\ (pc[t] \in ExistsPcs /\ StationId(t) \notin DOMAIN stations)
           => pc'[t] = "done" /\ result'[t] = "not_found" /\ db' = db

\* C24: a command that ends with a typed failure has changed no table and
\* created no station; unknown types, zones outside the four and unknown
\* stations end with their typed failure.
C24_FailuresChangeNothing ==
  [][FailureBeforeAnyWrite /\ RefusedAsClaimed]_vars

\* resource_add with zone keller on the existing station hq was refused and
\* station_set_condition on fob was refused; the tables are as at the start.
W24_Refused ==
  \E t, u \in Tasks :
    /\ pc[t] = "done" /\ call[t].op = "resource_add"
    /\ StationId(t) = "hq" /\ Zone(t) = "keller" /\ result[t] = "invalid_zone"
    /\ pc[u] = "done" /\ call[u].op = "station_set_condition"
    /\ StationId(u) = "fob" /\ result[u] = "not_found"
    /\ stations = SeededStations
    /\ station_members = SeededMembers
\* ------------------------------------------------------------------ C25
\* C25: the windows of Friday, Saturday and Sunday run until 01:00 of the
\* next day: a command invoked on Monday before 01:00 is let through, and
\* one invoked on Friday before 01:00 is refused as closed.
C25_WindowsRunPastMidnight ==
  \A t \in Tasks :
    (pc[t] # "idle" /\ call[t].op = "factions" /\ call[t].now.minute < 60)
    => /\ call[t].now.weekday = 0 => result[t] # "closed"
       /\ call[t].now.weekday = 4 => result[t] = "closed"
====
